---------------------------- MODULE Spec2Model ----------------------------
(***************************************************************************)
(* A model of shadertoy_to_glsl: the ShaderToy-to-GLSL rewriter            *)
(* (shadertoys_to_glsl.py: convert_shadertoy_to_glsl and its command-line  *)
(* main) and the display harness (showshader.py: main).                    *)
(*                                                                         *)
(* Text is a sequence of one-character strings, so that the regular        *)
(* expressions of the rewriter (literal patterns, with or without \b word  *)
(* boundaries) are matched character by character as Python's re does.     *)
(***************************************************************************)
EXTENDS Integers, Sequences, FiniteSets, TLC

VARIABLES
    \* shadertoys_to_glsl.py
    pc,                \* position of main()
    run,               \* number of the invocation of the tool (1, 2, ...)
    input_file,        \* [readable, data]: the file named by args.input_file
    output_file,       \* [exists, data]: the file named by args.output_file
    shadertoy_shader,  \* main's local: the text read
    glsl_shader,       \* convert_shadertoy_to_glsl's local: the text being rewritten
    out_opened,        \* whether open(output_file, 'w') has been executed
    printed,           \* whether the confirmation line has been printed
    exit_code,         \* -1 while the process runs, then its exit status
    steps,             \* the steps main has completed, in order
    \* showshader.py
    hpc,               \* position of showshader.main()
    running,           \* main's local of the render loop
    quit_seen,         \* a QUIT event has been polled
    quit_frame,        \* the iteration in which it was polled (0: none)
    pygame_up,         \* pygame.init() has been called and pygame.quit() has not
    pygame_quit,       \* pygame.quit() has been called
    shader_program,    \* "none" | "created" | "deleted"
    vao,               \* "none" | "created" | "deleted"
    res_uploads,       \* number of glUniform2f(resolution_location, ...) calls
    frame,             \* number of iterations of the render loop begun
    frame_log,         \* the steps of the current iteration, in order
    frames_done,       \* number of iterations that ran to the buffer swap
    resolution_location, \* glGetUniformLocation of uResolution (-1: not found)
    time_location,     \* glGetUniformLocation of uTime (-1: not found)
    h_exit             \* -1 while the process runs, then its exit status

tvars == <<pc, run, input_file, output_file, shadertoy_shader, glsl_shader,
           out_opened, printed, exit_code, steps>>
hvars == <<hpc, running, quit_seen, quit_frame, pygame_up, pygame_quit, shader_program, vao,
           res_uploads, frame, frame_log, frames_done, resolution_location,
           time_location, h_exit>>
vars == <<tvars, hvars>>

---------------------------------------------------------------------------
(* Bounds of the model.                                                    *)

\* An input text is the concatenation of at most MaxPieces fragments.
MaxPieces == 2
\* The tool is run at most MaxRuns times, each later run on the previous output.
MaxRuns == 2
\* The render loop begins at most MaxFrames iterations before the user quits.
MaxFrames == 4

---------------------------------------------------------------------------
(* Python's re on literal patterns.                                        *)

Letters ==
    {"a","b","c","d","e","f","g","h","i","j","k","l","m","n","o","p","q","r","s","t",
     "u","v","w","x","y","z","A","B","C","D","E","F","G","H","I","J","K","L","M","N",
     "O","P","Q","R","S","T","U","V","W","X","Y","Z"}
Digits == {"0","1","2","3","4","5","6","7","8","9"}

\* \w of a str pattern: letters, digits and the underscore.
IsWordChar(c) == c \in Letters \cup Digits \cup {"_"}

\* A pattern written without its \b: every position passes.
WordBoundaryAlways(s, i) == TRUE
\* \b at position i of s (0 .. Len(s)): between s[i] and s[i+1], exactly one
\* side is a word character (the outside of the string is not).
WordBoundary(s, i) ==
    LET before == i >= 1 /\ IsWordChar(s[i])
        after == i < Len(s) /\ IsWordChar(s[i + 1])
    IN before # after

\* A compiled pattern: the literal text lit, between two \b when wb.
\* rx matches s at index i (1-based).
MatchAt(rx, s, i) ==
    /\ i >= 1
    /\ i + Len(rx.lit) - 1 <= Len(s)
    /\ \A k \in 1..Len(rx.lit) : s[i + k - 1] = rx.lit[k]
    /\ rx.wb => WordBoundary(s, i - 1) /\ WordBoundary(s, i + Len(rx.lit) - 1)

Min(S) == CHOOSE m \in S : \A n \in S : m <= n

\* re.sub from index i on: the leftmost match at or after i is replaced and
\* the scan goes on after the end of the match (non-overlapping matches).
RECURSIVE SubFrom(_, _, _, _)
SubFrom(rx, repl, s, i) ==
    LET ms == {j \in i..(Len(s) - Len(rx.lit) + 1) : MatchAt(rx, s, j)}
    IN IF ms = {} THEN SubSeq(s, i, Len(s))
       ELSE LET m == Min(ms)
            IN SubSeq(s, i, m - 1) \o repl \o SubFrom(rx, repl, s, m + Len(rx.lit))

\* re.sub(pattern, repl, string)
re_sub(rx, repl, s) == SubFrom(rx, repl, s, 1)

---------------------------------------------------------------------------
(* The rules of convert_shadertoy_to_glsl.                                 *)

Pat1 ==
    <<"i","R","e","s","o","l","u","t","i","o","n">>
Repl1 ==
    <<"u","R","e","s","o","l","u","t","i","o","n">>
Pat2 ==
    <<"i","T","i","m","e">>
Repl2 ==
    <<"u","T","i","m","e">>
Pat3 ==
    <<"v","o","i","d"," ","m","a","i","n","I","m","a","g","e","("," ","o","u","t"," ","v","e",
      "c","4"," ","f","r","a","g","C","o","l","o","r",","," ","i","n"," ","v","e","c","2"," ",
      "f","r","a","g","C","o","o","r","d"," ",")">>
\* The replacement without its parentheses.
Repl3NoParens ==
    <<"v","o","i","d"," ","m","a","i","n">>
Repl3 ==
    <<"v","o","i","d"," ","m","a","i","n","(",")">>
Pat4 ==
    <<"f","r","a","g","C","o","o","r","d">>
\* A replacement that keeps the name it replaces.
Repl4KeepsName ==
    <<"f","r","a","g","C","o","o","r","d",".","x","y">>
Repl4 ==
    <<"g","l","_","F","r","a","g","C","o","o","r","d",".","x","y">>
header ==
    <<"#","v","e","r","s","i","o","n"," ","3","3","0"," ","c","o","r","e","\n","u","n","i","f",
      "o","r","m"," ","f","l","o","a","t"," ","u","T","i","m","e",";"," "," "," "," "," "," ",
      " "," "," ","/","/"," ","E","q","u","i","v","a","l","e","n","t"," ","t","o"," ","i","T",
      "i","m","e","\n","u","n","i","f","o","r","m"," ","v","e","c","2"," ","u","R","e","s","o",
      "l","u","t","i","o","n",";"," "," "," "," ","/","/"," ","E","q","u","i","v","a","l","e",
      "n","t"," ","t","o"," ","i","R","e","s","o","l","u","t","i","o","n","\n","o","u","t"," ",
      "v","e","c","4"," ","f","r","a","g","C","o","l","o","r",";"," "," "," "," "," "," "," ",
      " "," "," ","/","/"," ","O","u","t","p","u","t"," ","v","a","r","i","a","b","l","e","\n">>

\* The four patterns (lines 12, 15, 18, 21): rules 1, 2 and 4 are written
\* between two \b, rule 3 is the bare phrase.
Rule1Pattern == [lit |-> Pat1, wb |-> TRUE]
Rule2Pattern == [lit |-> Pat2, wb |-> TRUE]
Rule3Pattern == [lit |-> Pat3, wb |-> FALSE]
Rule4Pattern == [lit |-> Pat4, wb |-> TRUE]

Rule1(s) == re_sub(Rule1Pattern, Repl1, s)
Rule2(s) == re_sub(Rule2Pattern, Repl2, s)
Rule4(s) == re_sub(Rule4Pattern, Repl4, s)
\* Rule 3 run on a text in which rule 4 has already rewritten fragCoord.
Rule3AfterRule4(s) == re_sub(Rule3Pattern, Repl3, Rule4(s))
Rule3(s) == re_sub(Rule3Pattern, Repl3, s)

---------------------------------------------------------------------------
(* The input texts.                                                        *)

SigExtraSpace ==
    <<"v","o","i","d"," ","m","a","i","n","I","m","a","g","e","("," ","o","u","t"," ","v","e",
      "c","4"," ","f","r","a","g","C","o","l","o","r",","," ","i","n"," ","v","e","c","2"," ",
      "f","r","a","g","C","o","o","r","d"," "," ",")">>
Scenario1Rest ==
    <<" ","{"," ","f","r","a","g","C","o","l","o","r"," ","="," ","v","e","c","4","(","i","R",
      "e","s","o","l","u","t","i","o","n",".","x","y",","," ","i","T","i","m","e",","," ","1",
      ".","0",")",";"," ","}">>

Fragments ==
    {Pat1, Pat2, Pat4, Pat3, SigExtraSpace, Scenario1Rest,
     <<" ">>, <<"a">>, <<"2">>, <<"_">>, <<".">>}

RECURSIVE Flatten(_)
Flatten(ps) == IF ps = <<>> THEN <<>> ELSE Head(ps) \o Flatten(Tail(ps))

Inputs == {Flatten(ps) : ps \in UNION {[1..n -> Fragments] : n \in 0..MaxPieces}}

\* What the output file holds before the tool runs, when it exists.
OldContent == <<"o","l","d">>

---------------------------------------------------------------------------
(* shadertoys_to_glsl.py: main and convert_shadertoy_to_glsl.              *)

InitTool ==
    /\ pc = "start"
    /\ run = 1
    /\ \/ input_file = [readable |-> FALSE, data |-> <<>>]
       \/ \E s \in Inputs : input_file = [readable |-> TRUE, data |-> s]
    /\ \/ output_file = [exists |-> FALSE, data |-> <<>>]
       \/ output_file = [exists |-> TRUE, data |-> OldContent]
    /\ shadertoy_shader = <<>>
    /\ glsl_shader = <<>>
    /\ out_opened = FALSE
    /\ printed = FALSE
    /\ exit_code = -1
    /\ steps = <<>>

\* line 55, read_shader_from_file: the whole file is read.
read_ok ==
    /\ pc = "start"
    /\ input_file.readable
    /\ shadertoy_shader' = input_file.data
    /\ steps' = Append(steps, "read")
    /\ pc' = "convert"
    /\ UNCHANGED <<run, input_file, output_file, glsl_shader, out_opened, printed,
                   exit_code>>
    /\ UNCHANGED hvars

\* line 55, open() raises: the exception leaves main and ends the process.
read_fails ==
    /\ pc = "start"
    /\ ~input_file.readable
    /\ steps' = Append(steps, "read")
    /\ pc' = "failed"
    /\ exit_code' = 1
    /\ UNCHANGED <<run, input_file, output_file, shadertoy_shader, glsl_shader,
                   out_opened, printed>>
    /\ UNCHANGED hvars

\* lines 58 and 9
convert_begin ==
    /\ pc = "convert"
    /\ glsl_shader' = shadertoy_shader
    /\ pc' = "rule1"
    /\ UNCHANGED <<run, input_file, output_file, shadertoy_shader, out_opened,
                   printed, exit_code, steps>>
    /\ UNCHANGED hvars

\* line 12
convert_rule1 ==
    /\ pc = "rule1"
    /\ glsl_shader' = Rule1(glsl_shader)
    /\ pc' = "rule2"
    /\ UNCHANGED <<run, input_file, output_file, shadertoy_shader, out_opened,
                   printed, exit_code, steps>>
    /\ UNCHANGED hvars

\* line 15
convert_rule2 ==
    /\ pc = "rule2"
    /\ glsl_shader' = Rule2(glsl_shader)
    /\ pc' = "rule3"
    /\ UNCHANGED <<run, input_file, output_file, shadertoy_shader, out_opened,
                   printed, exit_code, steps>>
    /\ UNCHANGED hvars

\* line 18
convert_rule3 ==
    /\ pc = "rule3"
    /\ glsl_shader' = Rule3(glsl_shader)
    /\ pc' = "rule4"
    /\ UNCHANGED <<run, input_file, output_file, shadertoy_shader, out_opened,
                   printed, exit_code, steps>>
    /\ UNCHANGED hvars

\* line 21
convert_rule4 ==
    /\ pc = "rule4"
    /\ glsl_shader' = Rule4(glsl_shader)
    /\ pc' = "header"
    /\ UNCHANGED <<run, input_file, output_file, shadertoy_shader, out_opened,
                   printed, exit_code, steps>>
    /\ UNCHANGED hvars

\* The header put in front of the text as read instead of the rewritten text.
convert_header_of_input ==
    /\ pc = "header"
    /\ glsl_shader' = header \o shadertoy_shader
    /\ steps' = Append(steps, "rewrite")
    /\ pc' = "write"
    /\ UNCHANGED <<run, input_file, output_file, shadertoy_shader, out_opened,
                   printed, exit_code>>
    /\ UNCHANGED hvars

\* lines 24-31: the header is put in front and the text returned to main.
convert_header ==
    /\ pc = "header"
    /\ glsl_shader' = header \o glsl_shader
    /\ steps' = Append(steps, "rewrite")
    /\ pc' = "write"
    /\ UNCHANGED <<run, input_file, output_file, shadertoy_shader, out_opened,
                   printed, exit_code>>
    /\ UNCHANGED hvars

\* line 61, write_shader_to_file: opened for writing, written, closed.
write_ok ==
    /\ pc = "write"
    /\ out_opened' = TRUE
    /\ output_file' = [exists |-> TRUE, data |-> glsl_shader]
    /\ steps' = Append(steps, "write")
    /\ pc' = "print"
    /\ UNCHANGED <<run, input_file, shadertoy_shader, glsl_shader, printed, exit_code>>
    /\ UNCHANGED hvars

\* line 40, open() raises (no permission, no directory): the file is as it was.
write_open_fails ==
    /\ pc = "write"
    /\ steps' = Append(steps, "write")
    /\ pc' = "failed"
    /\ exit_code' = 1
    /\ UNCHANGED <<run, input_file, output_file, shadertoy_shader, glsl_shader,
                   out_opened, printed>>
    /\ UNCHANGED hvars

\* A write failure that is swallowed: main goes on to the confirmation.
write_io_fails_swallowed ==
    /\ pc = "write"
    /\ out_opened' = TRUE
    /\ \E n \in {0, Len(header)} :
          /\ n < Len(glsl_shader)
          /\ output_file' = [exists |-> TRUE, data |-> SubSeq(glsl_shader, 1, n)]
    /\ steps' = Append(steps, "write")
    /\ pc' = "print"
    /\ UNCHANGED <<run, input_file, shadertoy_shader, glsl_shader, printed, exit_code>>
    /\ UNCHANGED hvars

\* line 41, write() or the close raises after open() truncated the file: some
\* prefix of the text, short of all of it, is in the file.
write_io_fails ==
    /\ pc = "write"
    /\ out_opened' = TRUE
    /\ \E n \in {0, Len(header)} :
          /\ n < Len(glsl_shader)
          /\ output_file' = [exists |-> TRUE, data |-> SubSeq(glsl_shader, 1, n)]
    /\ steps' = Append(steps, "write")
    /\ pc' = "failed"
    /\ exit_code' = 1
    /\ UNCHANGED <<run, input_file, shadertoy_shader, glsl_shader, printed>>
    /\ UNCHANGED hvars

\* line 63
print_confirmation ==
    /\ pc = "print"
    /\ printed' = TRUE
    /\ steps' = Append(steps, "print")
    /\ pc' = "done"
    /\ exit_code' = 0
    /\ UNCHANGED <<run, input_file, output_file, shadertoy_shader, glsl_shader,
                   out_opened>>
    /\ UNCHANGED hvars

\* The tool is run again, on the file it has just written, to a new file.
run_again ==
    /\ pc = "done"
    /\ run < MaxRuns
    /\ run' = run + 1
    /\ input_file' = [readable |-> TRUE, data |-> output_file.data]
    /\ output_file' = [exists |-> FALSE, data |-> <<>>]
    /\ pc' = "start"
    /\ shadertoy_shader' = <<>>
    /\ glsl_shader' = <<>>
    /\ out_opened' = FALSE
    /\ printed' = FALSE
    /\ exit_code' = -1
    /\ steps' = <<>>
    /\ UNCHANGED hvars

HarnessIdle ==
    /\ hpc = "idle"
    /\ running = FALSE
    /\ quit_seen = FALSE
    /\ quit_frame = 0
    /\ pygame_up = FALSE
    /\ pygame_quit = FALSE
    /\ shader_program = "none"
    /\ vao = "none"
    /\ res_uploads = 0
    /\ frame = 0
    /\ frame_log = <<>>
    /\ frames_done = 0
    /\ resolution_location = -1
    /\ time_location = -1
    /\ h_exit = -1

NextTool ==
    \/ read_ok
    \/ read_fails
    \/ convert_begin
    \/ convert_rule1
    \/ convert_rule2
    \/ convert_rule3
    \/ convert_rule4
    \/ convert_header
    \/ write_ok
    \/ write_open_fails
    \/ write_io_fails
    \/ print_confirmation
    \/ run_again

Init == InitTool /\ HarnessIdle
Next == NextTool
Spec == Init /\ [][Next]_vars

---------------------------------------------------------------------------
(* showshader.py: main.                                                    *)

ToolIdle ==
    /\ pc = "idle"
    /\ run = 0
    /\ input_file = [readable |-> FALSE, data |-> <<>>]
    /\ output_file = [exists |-> FALSE, data |-> <<>>]
    /\ shadertoy_shader = <<>>
    /\ glsl_shader = <<>>
    /\ out_opened = FALSE
    /\ printed = FALSE
    /\ exit_code = -1
    /\ steps = <<>>

InitHarness ==
    /\ hpc = "init"
    /\ running = FALSE
    /\ quit_seen = FALSE
    /\ quit_frame = 0
    /\ pygame_up = FALSE
    /\ pygame_quit = FALSE
    /\ shader_program = "none"
    /\ vao = "none"
    /\ res_uploads = 0
    /\ frame = 0
    /\ frame_log = <<>>
    /\ frames_done = 0
    /\ resolution_location = -1
    /\ time_location = -1
    /\ h_exit = -1

\* exit(1) raises SystemExit, which is no Exception: the except clause of
\* line 197 does not catch it and the process ends as it is.
SystemExit ==
    /\ hpc' = "exited"
    /\ h_exit' = 1

\* lines 197-201: an Exception raised in the try block of main.
ExceptHandler ==
    /\ hpc' = "exited"
    /\ pygame_up' = FALSE
    /\ pygame_quit' = TRUE
    /\ h_exit' = 1

\* lines 124-126
h_init ==
    /\ hpc = "init"
    /\ \/ /\ hpc' = "clear_color"
          /\ pygame_up' = TRUE
          /\ UNCHANGED <<pygame_quit, h_exit>>
       \/ ExceptHandler      \* pygame.error: no display
    /\ UNCHANGED <<running, quit_seen, shader_program, vao, res_uploads, frame,
                   frame_log, frames_done>>
    /\ UNCHANGED tvars
    /\ UNCHANGED <<resolution_location, time_location>>
    /\ UNCHANGED quit_frame

\* lines 129-130: glClearColor, check_opengl_errors
h_clear_color ==
    /\ hpc = "clear_color"
    /\ \/ hpc' = "version" /\ UNCHANGED h_exit
       \/ SystemExit
    /\ UNCHANGED <<running, quit_seen, pygame_up, pygame_quit, shader_program, vao,
                   res_uploads, frame, frame_log, frames_done>>
    /\ UNCHANGED tvars
    /\ UNCHANGED <<resolution_location, time_location>>
    /\ UNCHANGED quit_frame

\* lines 133-136: no version string raises RuntimeError
h_version ==
    /\ hpc = "version"
    /\ \/ hpc' = "load" /\ UNCHANGED <<pygame_up, pygame_quit, h_exit>>
       \/ ExceptHandler
    /\ UNCHANGED <<running, quit_seen, shader_program, vao, res_uploads, frame,
                   frame_log, frames_done>>
    /\ UNCHANGED tvars
    /\ UNCHANGED <<resolution_location, time_location>>
    /\ UNCHANGED quit_frame

\* line 141, load_shader_source (lines 10-17): a failure is caught there and exit(1) called.
h_load ==
    /\ hpc = "load"
    /\ \/ hpc' = "program" /\ UNCHANGED h_exit
       \/ SystemExit
    /\ UNCHANGED <<running, quit_seen, pygame_up, pygame_quit, shader_program, vao,
                   res_uploads, frame, frame_log, frames_done>>
    /\ UNCHANGED tvars
    /\ UNCHANGED <<resolution_location, time_location>>
    /\ UNCHANGED quit_frame

\* line 144, create_shader_program (lines 58-97).
h_program ==
    /\ hpc = "program"
    /\ \/ /\ hpc' = "quad"
          /\ shader_program' = "created"
          /\ UNCHANGED <<pygame_up, pygame_quit, h_exit>>
       \* a compile failure (lines 72-74, 82-84): the handler reads the shader
       \* variable that was never bound, and that UnboundLocalError reaches main.
       \/ ExceptHandler /\ UNCHANGED shader_program
       \* a link failure (lines 92-95): exit(1)
       \/ SystemExit /\ UNCHANGED <<shader_program, pygame_up, pygame_quit>>
    /\ UNCHANGED <<running, quit_seen, vao, res_uploads, frame, frame_log, frames_done>>
    /\ UNCHANGED tvars
    /\ UNCHANGED <<resolution_location, time_location>>
    /\ UNCHANGED quit_frame

\* line 147, create_fullscreen_quad (lines 28-54): a failure is caught there and exit(1) called.
h_quad ==
    /\ hpc = "quad"
    /\ \/ hpc' = "uniforms" /\ vao' = "created" /\ UNCHANGED h_exit
       \/ SystemExit /\ UNCHANGED vao
    /\ UNCHANGED <<running, quit_seen, pygame_up, pygame_quit, shader_program,
                   res_uploads, frame, frame_log, frames_done>>
    /\ UNCHANGED tvars
    /\ UNCHANGED <<resolution_location, time_location>>
    /\ UNCHANGED quit_frame

\* lines 150-159: the uniform locations, glUseProgram, glUniform2f of
\* uResolution, check_opengl_errors.
h_resolution ==
    /\ hpc = "uniforms"
    /\ resolution_location' \in {-1, 0}
    /\ time_location' \in {-1, 1}
    /\ res_uploads' = res_uploads + 1
    /\ \/ hpc' = "loop_start" /\ UNCHANGED h_exit
       \/ SystemExit
    /\ UNCHANGED <<running, quit_seen, pygame_up, pygame_quit, shader_program, vao,
                   frame, frame_log, frames_done>>
    /\ UNCHANGED tvars
    /\ UNCHANGED quit_frame

\* lines 161-164
h_loop_start ==
    /\ hpc = "loop_start"
    /\ running' = TRUE
    /\ hpc' = "while"
    /\ UNCHANGED <<quit_seen, pygame_up, pygame_quit, shader_program, vao, res_uploads,
                   frame, frame_log, frames_done, h_exit>>
    /\ UNCHANGED tvars
    /\ UNCHANGED <<resolution_location, time_location>>
    /\ UNCHANGED quit_frame

\* A QUIT event that is seen and does not clear running.
h_poll_keeps_running ==
    /\ hpc = "while"
    /\ running
    /\ frame < MaxFrames
    /\ frame' = frame + 1
    /\ frame_log' = <<"poll">>
    /\ \E quit \in (IF frame + 1 = MaxFrames THEN {TRUE} ELSE BOOLEAN) :
          /\ quit_seen' = (quit_seen \/ quit)
          /\ quit_frame' = (IF quit THEN frame + 1 ELSE quit_frame)
          /\ running' = TRUE
    /\ hpc' = "clear"
    /\ UNCHANGED <<pygame_up, pygame_quit, shader_program, vao, res_uploads,
                   frames_done, h_exit>>
    /\ UNCHANGED tvars
    /\ UNCHANGED <<resolution_location, time_location>>


\* lines 165-171: the loop test, and in the loop the events polled; a QUIT
\* event among them clears running. The user quits by frame MaxFrames.
h_poll ==
    /\ hpc = "while"
    /\ running
    /\ frame < MaxFrames
    /\ frame' = frame + 1
    /\ frame_log' = <<"poll">>
    /\ \E quit \in (IF frame + 1 = MaxFrames THEN {TRUE} ELSE BOOLEAN) :
          /\ quit_seen' = (quit_seen \/ quit)
          /\ quit_frame' = (IF quit THEN frame + 1 ELSE quit_frame)
          /\ running' = ~quit
    /\ hpc' = "clear"
    /\ UNCHANGED <<pygame_up, pygame_quit, shader_program, vao, res_uploads,
                   frames_done, h_exit>>
    /\ UNCHANGED tvars
    /\ UNCHANGED <<resolution_location, time_location>>

\* lines 174-175: glClear, check_opengl_errors
h_clear ==
    /\ hpc = "clear"
    /\ frame_log' = Append(frame_log, "clear")
    /\ \/ hpc' = "utime" /\ UNCHANGED h_exit
       \/ SystemExit
    /\ UNCHANGED <<running, quit_seen, pygame_up, pygame_quit, shader_program, vao,
                   res_uploads, frame, frames_done>>
    /\ UNCHANGED tvars
    /\ UNCHANGED <<resolution_location, time_location>>
    /\ UNCHANGED quit_frame

\* lines 178-181: glUseProgram, glUniform1f of uTime; PyOpenGL raises GLError
\* (an Exception) when the call fails.
h_utime ==
    /\ hpc = "utime"
    /\ \/ /\ frame_log' = Append(frame_log, "utime")
          /\ hpc' = "draw"
          /\ UNCHANGED <<pygame_up, pygame_quit, h_exit>>
       \/ ExceptHandler /\ UNCHANGED frame_log
    /\ UNCHANGED <<running, quit_seen, shader_program, vao, res_uploads, frame,
                   frames_done>>
    /\ UNCHANGED tvars
    /\ UNCHANGED <<resolution_location, time_location>>
    /\ UNCHANGED quit_frame

\* lines 184-187: glDrawArrays, check_opengl_errors
h_draw ==
    /\ hpc = "draw"
    /\ frame_log' = Append(frame_log, "draw")
    /\ \/ hpc' = "flip" /\ UNCHANGED h_exit
       \/ SystemExit
    /\ UNCHANGED <<running, quit_seen, pygame_up, pygame_quit, shader_program, vao,
                   res_uploads, frame, frames_done>>
    /\ UNCHANGED tvars
    /\ UNCHANGED <<resolution_location, time_location>>
    /\ UNCHANGED quit_frame

\* line 190: pygame.display.flip, and back to the loop test
h_flip ==
    /\ hpc = "flip"
    /\ frame_log' = Append(frame_log, "flip")
    /\ frames_done' = frames_done + 1
    /\ hpc' = "while"
    /\ UNCHANGED <<running, quit_seen, pygame_up, pygame_quit, shader_program, vao,
                   res_uploads, frame, h_exit>>
    /\ UNCHANGED tvars
    /\ UNCHANGED <<resolution_location, time_location>>
    /\ UNCHANGED quit_frame

\* lines 165 and 193-195: the loop test fails; cleanup and the end of main.
h_cleanup ==
    /\ hpc = "while"
    /\ ~running
    /\ vao' = "deleted"
    /\ shader_program' = "deleted"
    /\ pygame_up' = FALSE
    /\ pygame_quit' = TRUE
    /\ hpc' = "exited"
    /\ h_exit' = 0
    /\ UNCHANGED <<running, quit_seen, res_uploads, frame, frame_log, frames_done>>
    /\ UNCHANGED tvars
    /\ UNCHANGED <<resolution_location, time_location>>
    /\ UNCHANGED quit_frame

NextHarness ==
    \/ h_init
    \/ h_clear_color
    \/ h_version
    \/ h_load
    \/ h_program
    \/ h_quad
    \/ h_resolution
    \/ h_loop_start
    \/ h_poll
    \/ h_clear
    \/ h_utime
    \/ h_draw
    \/ h_flip
    \/ h_cleanup

HarnessInit == InitHarness /\ ToolIdle
SpecHarness == HarnessInit /\ [][NextHarness]_vars

---------------------------------------------------------------------------
(* Vocabulary of the properties, stated on the text itself and not through *)
(* the matcher above.                                                      *)

IsPrefix(p, s) == Len(p) <= Len(s) /\ SubSeq(s, 1, Len(p)) = p

\* A character of an identifier.
IdentChar(c) == c \in Letters \cup Digits \cup {"_"}

\* The indices at which w occurs in s.
Occurrences(w, s) ==
    {i \in 1..(Len(s) - Len(w) + 1) : \A k \in 1..Len(w) : s[i + k - 1] = w[k]}

\* The occurrence of w at i is a whole identifier of s: no identifier
\* character touches it on either side.
WholeAt(w, s, i) ==
    /\ i = 1 \/ ~IdentChar(s[i - 1])
    /\ i + Len(w) - 1 = Len(s) \/ ~IdentChar(s[i + Len(w)])

WholeIdents(w, s) == {i \in Occurrences(w, s) : WholeAt(w, s, i)}

\* The occurrence of w at i starts or ends in the middle of an identifier.
InsideIdentifier(w, s, i) ==
    \/ i > 1 /\ IdentChar(s[i - 1]) /\ IdentChar(s[i])
    \/ /\ i + Len(w) - 1 < Len(s)
       /\ IdentChar(s[i + Len(w) - 1])
       /\ IdentChar(s[i + Len(w)])

InsideOccurrences(w, s) == {i \in Occurrences(w, s) : InsideIdentifier(w, s, i)}

\* The text after the header.
Body(s) == SubSeq(s, Len(header) + 1, Len(s))

\* The input holds none of the four patterns.
NothingRecognized(s) ==
    /\ WholeIdents(Pat1, s) = {}
    /\ WholeIdents(Pat2, s) = {}
    /\ WholeIdents(Pat4, s) = {}
    /\ Occurrences(Pat3, s) = {}

MainSteps == <<"read", "rewrite", "write", "print">>
FrameSteps == <<"poll", "clear", "utime", "draw", "flip">>

Scenario1Input ==
    <<"v","o","i","d"," ","m","a","i","n","I","m","a","g","e","("," ","o","u","t"," ","v","e",
      "c","4"," ","f","r","a","g","C","o","l","o","r",","," ","i","n"," ","v","e","c","2"," ",
      "f","r","a","g","C","o","o","r","d"," ",")"," ","{"," ","f","r","a","g","C","o","l","o",
      "r"," ","="," ","v","e","c","4","(","i","R","e","s","o","l","u","t","i","o","n",".","x",
      "y",","," ","i","T","i","m","e",","," ","1",".","0",")",";"," ","}">>
Scenario1ClaimedBody ==
    <<"v","o","i","d"," ","m","a","i","n","(",")"," ","{"," ","g","l","_","F","r","a","g","C",
      "o","o","r","d",".","x","y"," ","="," ","v","e","c","4","(","u","R","e","s","o","l","u",
      "t","i","o","n",".","x","y",","," ","u","T","i","m","e",","," ","1",".","0",")",";"," ",
      "}">>
Scenario1ActualBody ==
    <<"v","o","i","d"," ","m","a","i","n","(",")"," ","{"," ","f","r","a","g","C","o","l","o",
      "r"," ","="," ","v","e","c","4","(","u","R","e","s","o","l","u","t","i","o","n",".","x",
      "y",","," ","u","T","i","m","e",","," ","1",".","0",")",";"," ","}">>
SigRule4Applied ==
    <<"v","o","i","d"," ","m","a","i","n","I","m","a","g","e","("," ","o","u","t"," ","v","e",
      "c","4"," ","f","r","a","g","C","o","l","o","r",","," ","i","n"," ","v","e","c","2"," ",
      "g","l","_","F","r","a","g","C","o","o","r","d",".","x","y"," ",")">>
SigExtraSpaceRule4Applied ==
    <<"v","o","i","d"," ","m","a","i","n","I","m","a","g","e","("," ","o","u","t"," ","v","e",
      "c","4"," ","f","r","a","g","C","o","l","o","r",","," ","i","n"," ","v","e","c","2"," ",
      "g","l","_","F","r","a","g","C","o","o","r","d",".","x","y"," "," ",")">>
HeaderRewritten ==
    <<"#","v","e","r","s","i","o","n"," ","3","3","0"," ","c","o","r","e","\n","u","n","i","f",
      "o","r","m"," ","f","l","o","a","t"," ","u","T","i","m","e",";"," "," "," "," "," "," ",
      " "," "," ","/","/"," ","E","q","u","i","v","a","l","e","n","t"," ","t","o"," ","u","T",
      "i","m","e","\n","u","n","i","f","o","r","m"," ","v","e","c","2"," ","u","R","e","s","o",
      "l","u","t","i","o","n",";"," "," "," "," ","/","/"," ","E","q","u","i","v","a","l","e",
      "n","t"," ","t","o"," ","u","R","e","s","o","l","u","t","i","o","n","\n","o","u","t"," ",
      "v","e","c","4"," ","f","r","a","g","C","o","l","o","r",";"," "," "," "," "," "," "," ",
      " "," "," ","/","/"," ","O","u","t","p","u","t"," ","v","a","r","i","a","b","l","e","\n">>
SigPrefix ==
    <<"v","o","i","d"," ","m","a","i","n","I","m","a","g","e","(">>

---------------------------------------------------------------------------
(* The claims.                                                             *)

\* C1 as stated: on scenario 1 the tool writes the header followed by
\* `void main() { gl_FragCoord.xy = vec4(uResolution.xy, uTime, 1.0); }`.
C1_AsStated ==
    (pc = "done" /\ run = 1 /\ input_file.data = Scenario1Input)
        => output_file.data = header \o Scenario1ClaimedBody

\* C1 amended: on scenario 1 the tool writes the header followed by
\* `void main() { fragColor = vec4(uResolution.xy, uTime, 1.0); }`: the
\* assignment target fragColor is renamed by no rule.
C1_Scenario1 ==
    (pc = "done" /\ run = 1 /\ input_file.data = Scenario1Input)
        => output_file.data = header \o Scenario1ActualBody

C1_Witness == pc = "done" /\ run = 1 /\ input_file.data = Scenario1Input

\* C2: a mainImage signature that differs from the phrase only by an extra
\* space before `)` is written to the output character for character.
C2_SignatureUntouched ==
    (pc = "done" /\ run = 1)
        => Cardinality(Occurrences(SigExtraSpace, output_file.data))
               = Cardinality(Occurrences(SigExtraSpace, input_file.data))

\* What the code does with such a signature (kept beside C2): rule 3 leaves
\* it, rule 4 rewrites the parameter name in it.
C2_ParameterRewritten ==
    (pc = "done" /\ run = 1)
        => /\ Cardinality(Occurrences(SigPrefix, output_file.data))
                  >= Cardinality(Occurrences(SigExtraSpace, input_file.data))
           /\ Cardinality(Occurrences(SigExtraSpaceRule4Applied, output_file.data))
                  = Cardinality(Occurrences(SigExtraSpace, input_file.data))

\* C3: an input with no whole identifier iResolution, iTime or fragCoord and
\* no occurrence of the phrase is written as the header followed by the input
\* unchanged; the empty input is written as the header alone.
C3_NothingRecognized ==
    /\ (pc = "done" /\ NothingRecognized(input_file.data))
           => output_file.data = header \o input_file.data
    /\ (pc = "done" /\ input_file.data = <<>>) => output_file.data = header

C3_Witness ==
    /\ pc = "done"
    /\ input_file.data = <<"a">> \o Pat2
    /\ NothingRecognized(input_file.data)

\* C4: no rule rewrites an occurrence of its pattern that starts or ends in
\* the middle of an identifier: such occurrences are all still there after
\* the rule has run.
C4_NeverInsideIdentifier ==
    [][/\ pc = "rule1" => Cardinality(Occurrences(Pat1, glsl_shader'))
                              >= Cardinality(InsideOccurrences(Pat1, glsl_shader))
       /\ pc = "rule2" => Cardinality(Occurrences(Pat2, glsl_shader'))
                              >= Cardinality(InsideOccurrences(Pat2, glsl_shader))
       /\ pc = "rule3" => Cardinality(Occurrences(Pat3, glsl_shader'))
                              >= Cardinality(InsideOccurrences(Pat3, glsl_shader))
       /\ pc = "rule4" => Cardinality(Occurrences(Pat4, glsl_shader'))
                              >= Cardinality(InsideOccurrences(Pat4, glsl_shader))]_vars

\* The same of rules 1, 2 and 4 alone (kept beside C4).
C4_IdentifierRules ==
    [][/\ pc = "rule1" => Cardinality(Occurrences(Pat1, glsl_shader'))
                              >= Cardinality(InsideOccurrences(Pat1, glsl_shader))
       /\ pc = "rule2" => Cardinality(Occurrences(Pat2, glsl_shader'))
                              >= Cardinality(InsideOccurrences(Pat2, glsl_shader))
       /\ pc = "rule4" => Cardinality(Occurrences(Pat4, glsl_shader'))
                              >= Cardinality(InsideOccurrences(Pat4, glsl_shader))]_vars

\* C5: rules 1, 2 and 4 are idempotent: run on the text of the input file
\* (the file of every invocation, before it is read) and run on their own
\* output in main, a second run changes nothing; and no replacement holds
\* its rule's pattern as a whole identifier.
C5_Idempotent ==
    /\ pc = "start" =>
          /\ Rule1(Rule1(input_file.data)) = Rule1(input_file.data)
          /\ Rule2(Rule2(input_file.data)) = Rule2(input_file.data)
          /\ Rule4(Rule4(input_file.data)) = Rule4(input_file.data)
    /\ pc = "rule2" => Rule1(glsl_shader) = glsl_shader
    /\ pc = "rule3" => Rule2(glsl_shader) = glsl_shader
    /\ pc = "header" => Rule4(glsl_shader) = glsl_shader
    /\ WholeIdents(Pat1, Repl1) = {}
    /\ WholeIdents(Pat2, Repl2) = {}
    /\ WholeIdents(Pat4, Repl4) = {}

\* Rule 4 has run and has rewritten something.
C5_Witness ==
    /\ pc = "header"
    /\ WholeIdents(Pat4, Rule3(Rule2(Rule1(shadertoy_shader)))) # {}
    /\ Occurrences(Repl4, glsl_shader) # {}

\* C6: rule 3 runs before rule 4, so every occurrence of the phrase in the
\* input becomes `void main()`; with rules 3 and 4 swapped the result differs
\* on every input holding the phrase, the signature then surviving with its
\* fragCoord rewritten.
C6_Order ==
    /\ pc \in {"rule4", "header"} =>
          /\ Occurrences(Pat3, glsl_shader) = {}
          /\ Cardinality(Occurrences(Repl3, glsl_shader))
                 = Cardinality(Occurrences(Repl3, shadertoy_shader))
                     + Cardinality(Occurrences(Pat3, shadertoy_shader))
          /\ Cardinality(Occurrences(SigPrefix, glsl_shader))
                 = Cardinality(Occurrences(SigPrefix, shadertoy_shader))
                     - Cardinality(Occurrences(Pat3, shadertoy_shader))
    /\ (pc = "header" /\ Occurrences(Pat3, shadertoy_shader) # {}) =>
          LET swapped == re_sub(Rule3Pattern, Repl3,
                                re_sub(Rule4Pattern, Repl4,
                                       Rule2(Rule1(shadertoy_shader))))
          IN /\ swapped # glsl_shader
             /\ Cardinality(Occurrences(SigRule4Applied, swapped))
                    = Cardinality(Occurrences(Pat3, shadertoy_shader))
             /\ Cardinality(Occurrences(Repl3, swapped))
                    = Cardinality(Occurrences(Repl3, shadertoy_shader))

C6_Witness ==
    /\ pc = "header"
    /\ Cardinality(Occurrences(Pat3, shadertoy_shader)) = 2

\* C7: main reads, rewrites, writes and prints in this order, each at most
\* once; a failed read leaves the output file unopened and as it was; after
\* any failure nothing is printed and the exit status is 1; the confirmation
\* is printed only with the header and the rewritten input in the output file.
C7_FailureIsTerminal ==
    /\ IsPrefix(steps, MainSteps)
    /\ pc = "failed" => ~printed /\ exit_code = 1 /\ steps \in {<<"read">>, SubSeq(MainSteps, 1, 3)}
    /\ (pc = "failed" /\ steps = <<"read">>) =>
          /\ ~out_opened
          /\ output_file \in {[exists |-> FALSE, data |-> <<>>],
                              [exists |-> TRUE, data |-> OldContent]}
    /\ printed =>
          /\ steps = MainSteps
          /\ output_file = [exists |-> TRUE,
                            data |-> header \o Rule4(Rule3(Rule2(Rule1(input_file.data))))]
    /\ exit_code = 0 <=> printed
    /\ exit_code # -1 <=> pc \in {"failed", "done"}

\* The write has failed after the output file was opened.
C7_Witness ==
    /\ pc = "failed"
    /\ out_opened
    /\ output_file.data = header

\* C8: on every exit after the vertex array object or the shader program was
\* created, both have been deleted and pygame.quit() has been called.
C8_ReleasedOnExit ==
    (hpc = "exited" /\ (shader_program # "none" \/ vao # "none"))
        => /\ shader_program # "created"
           /\ vao # "created"
           /\ pygame_quit

\* C9 as stated: uResolution is uploaded once, before the first frame; the
\* steps of an iteration are poll, clear, uTime, draw, swap in this order;
\* the loop is left only after a QUIT event, and no iteration begins after
\* the one that polled it.
C9_AsStated ==
    /\ res_uploads <= 1
    /\ frame >= 1 => res_uploads = 1
    /\ IsPrefix(frame_log, FrameSteps)
    /\ quit_seen => frame = quit_frame
    /\ (hpc = "exited" /\ frame >= 1) => quit_seen /\ frame_log = FrameSteps

\* C9 amended: as stated, but the loop is left either after the iteration
\* that polled QUIT, which runs to its buffer swap (exit status 0), or in the
\* middle of an iteration by an error (exit status 1), that iteration having
\* done a prefix of the steps.
C9_RenderLoop ==
    /\ res_uploads <= 1
    /\ frame >= 1 => res_uploads = 1
    /\ IsPrefix(frame_log, FrameSteps)
    /\ quit_seen => frame = quit_frame
    /\ frames_done \in {frame - 1, frame} \cap Nat
    /\ hpc = "while" => frames_done = frame /\ (frame >= 1 => frame_log = FrameSteps)
    /\ (hpc = "exited" /\ h_exit = 0) =>
          quit_seen /\ frame >= 1 /\ frames_done = frame /\ frame_log = FrameSteps
    /\ (hpc = "exited" /\ frame >= 1 /\ ~(quit_seen /\ frame_log = FrameSteps)) =>
          h_exit = 1 /\ frames_done = frame - 1

\* The user has quit in the third iteration and main has ended.
C9_Witness == hpc = "exited" /\ h_exit = 0 /\ frame = 3 /\ frames_done = 3

\* C10: what convert_shadertoy_to_glsl returns is the header followed by a
\* body with no whole identifier iResolution, iTime or fragCoord and no
\* occurrence of the phrase, no rule bringing back what an earlier rule took
\* out; the header is not rewritten in the run that adds it, and a run on the
\* tool's own output puts a new header in front of the old one, whose
\* comments that run rewrites.
C10_Postcondition ==
    /\ pc \in {"rule2", "rule3", "rule4", "header"} => WholeIdents(Pat1, glsl_shader) = {}
    /\ pc \in {"rule3", "rule4", "header"} => WholeIdents(Pat2, glsl_shader) = {}
    /\ pc \in {"rule4", "header"} => Occurrences(Pat3, glsl_shader) = {}
    /\ pc = "header" => WholeIdents(Pat4, glsl_shader) = {}
    /\ pc \in {"write", "print", "done"} =>
          /\ IsPrefix(header, glsl_shader)
          /\ NothingRecognized(Body(glsl_shader))
    /\ HeaderRewritten # header
    /\ (pc = "done" /\ run >= 2) =>
          /\ output_file.data = header \o HeaderRewritten \o Body(input_file.data)
          /\ output_file.data # input_file.data

\* The tool has run on its own output.
C10_Witness == pc = "done" /\ run = 2 /\ Len(input_file.data) > Len(header)

=============================================================================
